---- MODULE Spec2Model ----
(***************************************************************************)
(* A model of the three scripts of the repository:                         *)
(*   swapui.py     the Engine (background thread _run, snapshot(), lock)   *)
(*   spotprice.py  the console VWAP / spot / deviation loop (main)         *)
(*   price.py      the console transfer / swap rolling-average loop (main) *)
(* One of the three runs in a behaviour; prog says which.                  *)
(*                                                                         *)
(* Python floats are modelled as exact rationals (records k/n/d), with the *)
(* IEEE values inf and nan and Python's None as further kinds.  Raw        *)
(* on-chain integers are decimal numbers m * 10^e, so that 10^18 never has *)
(* to be written out.  Wall-clock stamps (time.time()) are not modelled.   *)
(***************************************************************************)
EXTENDS Integers, Sequences, FiniteSets, TLC

(* ------------------------------ bounds -------------------------------- *)
\* deque(maxlen=VWAP_WINDOW): 30 in swapui.py, 20 in spotprice.py.  Scaled
\* down; the deque rule is the same.
VWAP_WINDOW == 2
\* recent_execs = deque(maxlen=200), scaled down.
MaxExecs == 3
\* series = deque(maxlen=600), scaled down.
MaxSeries == 1
\* snapshot() keeps list(recent_execs)[-20:], scaled down.
SnapLast == 2
\* price.py: deque(maxlen=5) of the last5_* deques, scaled down.
Last5 == 2
\* price.py: last50_transfers = deque(maxlen=50), scaled down.
Last50 == 3
\* Longest window handed to vwap() when it is exercised on its own.
MaxItems == 2
\* Events of the environment in one behaviour: a log entry delivered, an
\* I/O call that raises, a spot refresh that falls due after the first, a
\* snapshot() call, a stop() call.
MaxEvents == 3
\* Longest batch one get_new_entries() call returns.
MaxBatch == 2

(* ----------------------------- constants ------------------------------ *)
USDT_DECIMALS == 6
WETH_DECIMALS == 18
\* initial lookback: from_block = max(0, latest - 50)
LOOKBACK_INIT == 50
\* lookback of the reconnect path of swapui.py and spotprice.py
LOOKBACK_RECONNECT == 10

(* ------------------------------ numbers ------------------------------- *)
Abs(x) == IF x < 0 THEN -x ELSE x

Sign(x) == IF x < 0 THEN -1 ELSE IF x > 0 THEN 1 ELSE 0

Max(a, b) == IF a >= b THEN a ELSE b

Min(a, b) == IF a <= b THEN a ELSE b

RECURSIVE Gcd(_, _)
Gcd(a, b) == IF b = 0 THEN a ELSE Gcd(b, a % b)

RECURSIVE Pow10(_)
Pow10(k) == IF k = 0 THEN 1 ELSE 10 * Pow10(k - 1)

\* Python's None.
None == [k |-> "none", n |-> 0, d |-> 1]

\* float("inf") and -float("inf"): n carries the sign.
Inf == [k |-> "inf", n |-> 1, d |-> 1]

NegInf == [k |-> "inf", n |-> -1, d |-> 1]

\* float("nan")
NaN == [k |-> "nan", n |-> 0, d |-> 1]

\* The float n/d, in lowest terms with d > 0.
Num(n, d) ==
    LET g == Gcd(Abs(n), Abs(d))
        s == IF d < 0 THEN -1 ELSE 1
    IN  [k |-> "num", n |-> s * (n \div g), d |-> s * (d \div g)]

IsNum(x) == x.k = "num"

\* Python truth value of a float or None: None and 0.0 are false, inf and nan true.
Truthy(x) == x.k \in {"inf", "nan"} \/ (x.k = "num" /\ x.n # 0)

\* Sign of a float (0 for nan, which compares false with everything).
FSign(x) == IF x.k = "nan" THEN 0 ELSE Sign(x.n)

FAdd(a, b) ==
    CASE a.k = "nan" \/ b.k = "nan" -> NaN
      [] a.k = "inf" /\ b.k = "inf" -> IF a.n = b.n THEN a ELSE NaN
      [] a.k = "inf" -> a
      [] b.k = "inf" -> b
      [] OTHER -> Num(a.n * b.d + b.n * a.d, a.d * b.d)

FNeg(a) == IF a.k = "nan" THEN NaN ELSE [a EXCEPT !.n = -a.n]

FSub(a, b) == FAdd(a, FNeg(b))

FMul(a, b) ==
    CASE a.k = "nan" \/ b.k = "nan" -> NaN
      [] a.k = "inf" \/ b.k = "inf" ->
            IF FSign(a) * FSign(b) = 0 THEN NaN
            ELSE IF FSign(a) * FSign(b) > 0 THEN Inf ELSE NegInf
      [] OTHER -> Num(a.n * b.n, a.d * b.d)

\* a / b for floats; the callers guard b = 0.0 (ZeroDivisionError in Python).
FDiv(a, b) ==
    CASE a.k = "nan" \/ b.k = "nan" -> NaN
      [] a.k = "inf" /\ b.k = "inf" -> NaN
      [] a.k = "inf" -> IF FSign(b) < 0 THEN FNeg(a) ELSE a
      [] b.k = "inf" -> Num(0, 1)
      [] OTHER -> Num(a.n * b.d, a.d * b.n)

FAbs(a) == IF a.k = "nan" THEN NaN ELSE [a EXCEPT !.n = Abs(a.n)]

\* a > b on floats (false when either is nan).
FGt(a, b) ==
    CASE a.k = "nan" \/ b.k = "nan" -> FALSE
      [] a.k = "inf" /\ b.k = "inf" -> a.n > b.n
      [] a.k = "inf" -> a.n > 0
      [] b.k = "inf" -> b.n < 0
      [] OTHER -> a.n * b.d > b.n * a.d

\* A raw on-chain integer m * 10^e.
Raw(m, e) == [m |-> m, e |-> e]

\* raw / 10^dec as a float: the scaling happens before any price division.
Scale(raw, dec) ==
    IF raw.m = 0 THEN Num(0, 1)
    ELSE IF raw.e >= dec THEN Num(raw.m * Pow10(raw.e - dec), 1)
    ELSE Num(raw.m, Pow10(dec - raw.e))

(* ------------------------------ decoders ------------------------------ *)
\* A decoder's "return None".
NoRes == [some |-> FALSE, px |-> None, sz |-> None]

\* A faulty V2 decoder: any log with ETH in is taken for a trade.
v2_price_any_out(args) ==
    LET a0in  == args.amount0In
        a1out == args.amount1Out
    IN  IF a0in.m > 0
        THEN LET eth  == Scale(a0in, WETH_DECIMALS)
                 usdt == Scale(a1out, USDT_DECIMALS)
             IN  [some |-> TRUE, px |-> FDiv(usdt, eth), sz |-> eth]
        ELSE NoRes

\* swapui.py: (usdt / eth, eth) for an ETH -> USDT swap, else None.
v2_price_from_swap(args) ==
    LET a0in  == args.amount0In
        a1out == args.amount1Out
    IN  IF a0in.m > 0 /\ a1out.m > 0
        THEN LET eth  == Scale(a0in, WETH_DECIMALS)
                 usdt == Scale(a1out, USDT_DECIMALS)
             IN  [some |-> TRUE, px |-> FDiv(usdt, eth), sz |-> eth]
        ELSE NoRes

\* A faulty V3 decoder: the sign of amount1 is not looked at.
v3_price_any_sign(args) ==
    LET a0 == args.amount0
        a1 == args.amount1
    IN  IF a0.m > 0
        THEN LET eth  == Scale(a0, WETH_DECIMALS)
                 usdt == Scale(Raw(Abs(a1.m), a1.e), USDT_DECIMALS)
             IN  [some |-> TRUE, px |-> FDiv(usdt, eth), sz |-> eth]
        ELSE NoRes

v3_price_from_swap(args) ==
    LET a0 == args.amount0
        a1 == args.amount1
    IN  IF a0.m > 0 /\ a1.m < 0
        THEN LET eth  == Scale(a0, WETH_DECIMALS)
                 usdt == Scale(Raw(Abs(a1.m), a1.e), USDT_DECIMALS)
             IN  [some |-> TRUE, px |-> FDiv(usdt, eth), sz |-> eth]
        ELSE NoRes

(* ------------------------------- vwap --------------------------------- *)
\* sum(p * sz for p, sz in items)
RECURSIVE SumPxSz(_)
SumPxSz(items) ==
    IF items = <<>> THEN Num(0, 1)
    ELSE FAdd(FMul(Head(items).px, Head(items).sz), SumPxSz(Tail(items)))

\* sum(sz for _, sz in items)
RECURSIVE SumSz(_)
SumSz(items) ==
    IF items = <<>> THEN Num(0, 1)
    ELSE FAdd(Head(items).sz, SumSz(Tail(items)))

\* A faulty vwap: 0.0 where the source returns None.
vwap_zero(items) ==
    IF items = <<>> THEN Num(0, 1)
    ELSE LET num == SumPxSz(items)
             den == SumSz(items)
         IN  IF Truthy(den) THEN FDiv(num, den) ELSE Num(0, 1)

vwap(items) ==
    IF items = <<>> THEN None
    ELSE LET num == SumPxSz(items)
             den == SumSz(items)
         IN  IF Truthy(den) THEN FDiv(num, den) ELSE None

\* A faulty bounded append: a full deque refuses the new entry.
Append_keep_oldest(dq, x, cap) ==
    IF Len(dq) < cap THEN Append(dq, x) ELSE dq

(* ------------------------------ deques -------------------------------- *)
\* deque(maxlen=cap).append(x): the oldest entry leaves when the deque is full.
Append_maxlen(dq, x, cap) ==
    IF Len(dq) < cap THEN Append(dq, x)
    ELSE IF cap = 0 THEN <<>>
    ELSE Append(Tail(dq), x)

\* deque(xs, maxlen=cap): only the last cap elements of xs are kept.
Deque_maxlen(xs, cap) ==
    IF Len(xs) <= cap THEN xs ELSE SubSeq(xs, Len(xs) - cap + 1, Len(xs))

(* --------------------------- spot prices ------------------------------ *)
RECURSIVE Pow2(_)
Pow2(k) == IF k = 0 THEN 1 ELSE 2 * Pow2(k - 1)

\* A faulty spot price: 0.0 for a pool with no ETH.
v2_spot_price_zero(r0, r1) ==
    LET reserve_eth  == Scale(r0, WETH_DECIMALS)
        reserve_usdt == Scale(r1, USDT_DECIMALS)
    IN  IF Truthy(reserve_eth) THEN FDiv(reserve_usdt, reserve_eth) ELSE Num(0, 1)

\* getReserves() -> (r0, r1): reserve_usdt / reserve_eth, or inf with no ETH.
v2_spot_price(r0, r1) ==
    LET reserve_eth  == Scale(r0, WETH_DECIMALS)
        reserve_usdt == Scale(r1, USDT_DECIMALS)
    IN  IF Truthy(reserve_eth) THEN FDiv(reserve_usdt, reserve_eth) ELSE Inf

\* x * 10^k for a float x and an integer k of either sign.
Times10(x, k) ==
    IF k >= 0 THEN FMul(x, Num(Pow10(k), 1)) ELSE FMul(x, Num(1, Pow10(-k)))

\* slot0() -> sqrtP = m * 2^b / 10^e: (sqrtP / 2^96)^2 * 10^(18 - 6).  The
\* powers of ten of the square and of the rescaling are applied together.
v3_spot_price(sqrtP) ==
    LET root == IF sqrtP.b >= 96
                THEN Num(sqrtP.m * Pow2(sqrtP.b - 96), 1)
                ELSE Num(sqrtP.m, Pow2(96 - sqrtP.b))
        raw  == FMul(root, root)
    IN  Times10(raw, (WETH_DECIMALS - USDT_DECIMALS) - 2 * sqrtP.e)

(* --------------------------- environment ------------------------------ *)
\* What the external log source can deliver for the V2 pool: two ETH -> USDT
\* swaps, a USDT -> ETH swap, a swap with ETH in but no USDT out and one with
\* USDT out but no ETH in (all three filtered out), and a log process_log
\* rejects.
V2Logs ==
    { [ok |-> TRUE, tx |-> "a",
       args |-> [amount0In |-> Raw(1, 18), amount1In |-> Raw(0, 0),
                 amount0Out |-> Raw(0, 0), amount1Out |-> Raw(2, 9)]],
      [ok |-> TRUE, tx |-> "b",
       args |-> [amount0In |-> Raw(2, 18), amount1In |-> Raw(0, 0),
                 amount0Out |-> Raw(0, 0), amount1Out |-> Raw(36, 8)]],
      [ok |-> TRUE, tx |-> "c",
       args |-> [amount0In |-> Raw(0, 0), amount1In |-> Raw(2, 9),
                 amount0Out |-> Raw(1, 18), amount1Out |-> Raw(0, 0)]],
      [ok |-> TRUE, tx |-> "h",
       args |-> [amount0In |-> Raw(1, 18), amount1In |-> Raw(2, 9),
                 amount0Out |-> Raw(0, 0), amount1Out |-> Raw(0, 0)]],
      [ok |-> TRUE, tx |-> "j",
       args |-> [amount0In |-> Raw(0, 0), amount1In |-> Raw(3, 9),
                 amount0Out |-> Raw(0, 0), amount1Out |-> Raw(2, 9)]],
      [ok |-> FALSE, tx |-> "d",
       args |-> [amount0In |-> Raw(0, 0), amount1In |-> Raw(0, 0),
                 amount0Out |-> Raw(0, 0), amount1Out |-> Raw(0, 0)]] }

\* The same for the V3 pool (signed deltas).
V3Logs ==
    { [ok |-> TRUE, tx |-> "e",
       args |-> [amount0 |-> Raw(1, 18), amount1 |-> Raw(-18, 8)]],
      [ok |-> TRUE, tx |-> "f",
       args |-> [amount0 |-> Raw(1, 18), amount1 |-> Raw(5, 8)]],
      [ok |-> TRUE, tx |-> "i",
       args |-> [amount0 |-> Raw(-1, 18), amount1 |-> Raw(18, 8)]],
      [ok |-> TRUE, tx |-> "k",
       args |-> [amount0 |-> Raw(0, 0), amount1 |-> Raw(-5, 8)]],
      [ok |-> FALSE, tx |-> "g",
       args |-> [amount0 |-> Raw(0, 0), amount1 |-> Raw(0, 0)]] }

LogsOf(v) == IF v = "V2" THEN V2Logs ELSE V3Logs

\* The chain height block_number returns when the script starts, and the
\* heights it can return later (the chain only grows).
StartHeights == {5}

Heights == {5, 60}

\* getReserves() results: a funded pool and one with no ETH.
Reserves == { <<Raw(100, 18), Raw(18, 10)>>, <<Raw(0, 0), Raw(18, 10)>> }

\* slot0() results (sqrtPriceX96).
SqrtPrices == { [m |-> 42, b |-> 96, e |-> 6] }

\* The batches a poll may return: every sequence of at most n logs.
RECURSIVE SeqsUpTo(_, _)
SeqsUpTo(S, n) ==
    IF n = 0 THEN {<<>>}
    ELSE LET shorter == SeqsUpTo(S, n - 1)
         IN  shorter \cup {Append(s, x) : s \in {t \in shorter : Len(t) = n - 1}, x \in S}

(* ------------------------------- state -------------------------------- *)
VARIABLES
    prog,          \* which script runs: "swapui", "spotprice" or "price"
    pc,            \* the loop's position
    venue,         \* the venue whose filter the loop is working on
    batch,         \* the entries of the current batch not yet processed
    polled,        \* history: the batch as the poll returned it, while it is worked on
    stop,          \* Engine._stop
    w3,            \* the connection object held
    v2_filter,     \* [conn, from]: the connection a filter lives on, its fromBlock
    v3_filter,
    lock,          \* Engine.lock: "free", or who holds it ("run", "snap")
    v2_trades,     \* Engine.v2_trades / v2_win of spotprice.py
    v3_trades,     \* Engine.v3_trades / v3_win of spotprice.py
    recent_execs,  \* Engine.recent_execs
    series,        \* Engine.series
    v2spot,        \* Engine.v2spot
    v3spot,        \* Engine.v3spot
    last_spot,     \* 0 while last_spot is still 0.0, 1 once a refresh has set it
    v2s,           \* the local v2s of a refresh
    v3s,           \* the local v3s of a refresh
    snap_pc,       \* position of a snapshot() call of the UI thread
    snap,          \* the dict that call is building / has returned
    pushed,        \* history: every (px, sz) appended to each venue's window
    transfer_filter,    \* price.py: the USDT Transfer filter
    last5_transfers,    \* price.py
    last50_transfers,   \* price.py
    last5_v2_prices,    \* price.py
    last5_v3_prices,    \* price.py
    last5_all_prices,   \* price.py
    fn_arg,        \* a function exercised on its own: its argument
    fn_res,        \* ... and [done, val]: whether it has returned, and what
    out,           \* spotprice.py: what the current / last spot refresh printed
    events         \* history: events of the environment so far

vars == <<prog, pc, venue, batch, polled, stop, w3, v2_filter, v3_filter, lock,
          v2_trades, v3_trades, recent_execs, series, v2spot, v3spot,
          last_spot, v2s, v3s, snap_pc, snap, out, pushed, events,
          transfer_filter, last5_transfers, last50_transfers,
          last5_v2_prices, last5_v3_prices, last5_all_prices, fn_arg, fn_res>>

conn_vars == <<w3, v2_filter, v3_filter>>

data_vars == <<v2_trades, v3_trades, recent_execs, series, v2spot, v3spot>>

snap_vars == <<snap_pc, snap, out>>

price_data == <<last5_transfers, last50_transfers,
                last5_v2_prices, last5_v3_prices, last5_all_prices>>

price_vars == <<transfer_filter, price_data>>

fn_vars == <<fn_arg, fn_res>>

hist_vars == <<pushed, events>>

Trades(v) == IF v = "V2" THEN v2_trades ELSE v3_trades

\* Web3(Web3.WebsocketProvider(...)): a new connection object; connections
\* are numbered in the order they are made.
NewConn == w3 + 1

\* w3.eth.filter({"fromBlock": from, ...}) on connection c.
Filter(c, from) == [conn |-> c, from |-> from]

EmptySnap ==
    [v2_vwap |-> None, v3_vwap |-> None, v2_spot |-> None, v3_spot |-> None,
     execs |-> [own |-> TRUE, val |-> <<>>],
     chart_df |-> [own |-> TRUE, val |-> <<>>]]

\* Nothing printed by a spot refresh: no spot line, no deviation warning.
NoOutput == [spot_v2 |-> None, spot_v3 |-> None, dev_v2 |-> None, dev_v3 |-> None]

\* Engine.__init__ (and the set-up of main): connected, filters from
\* max(0, latest - 50), every window empty, the thread about to start its loop.
Start ==
    /\ pc = "top"
    /\ venue = "V2"
    /\ batch = <<>>
    /\ polled = <<>>
    /\ stop = FALSE
    /\ w3 = 0
    /\ \E latest \in StartHeights :
          /\ v2_filter = Filter(0, Max(0, latest - LOOKBACK_INIT))
          /\ v3_filter = Filter(0, Max(0, latest - LOOKBACK_INIT))
          /\ transfer_filter = Filter(0, Max(0, latest - LOOKBACK_INIT))
    /\ last5_transfers = <<>>
    /\ last50_transfers = <<>>
    /\ last5_v2_prices = <<>>
    /\ last5_v3_prices = <<>>
    /\ last5_all_prices = <<>>
    /\ lock = "free"
    /\ v2_trades = <<>>
    /\ v3_trades = <<>>
    /\ recent_execs = <<>>
    /\ series = <<>>
    /\ v2spot = None
    /\ v3spot = None
    /\ last_spot = 0
    /\ v2s = None
    /\ v3s = None
    /\ snap_pc = "idle"
    /\ snap = EmptySnap
    /\ out = NoOutput
    /\ pushed = [v \in {"V2", "V3"} |-> <<>>]
    /\ events = 0

NoCall == [done |-> FALSE, val |-> None]

Init ==
    /\ prog \in {"swapui", "spotprice", "price"}
    /\ Start
    /\ fn_arg = <<>>
    /\ fn_res = NoCall

\* One more event of the environment, while the behaviour's bound allows it.
Event == events < MaxEvents /\ events' = events + 1

(* ------------------------- Engine._run (swapui.py) --------------------- *)
\* with self.lock: entry and exit.
Acquire(who) == lock = "free" /\ lock' = who

Release(who) == lock = who /\ lock' = "free"

\* ExecTrade(time.time(), log["blockNumber"], pool, eth_sz, px, tx): the
\* wall-clock stamp and the block number are carried along and not modelled.
ExecTrade(pool, eth_size, price, tx) ==
    [pool |-> pool, eth_size |-> eth_size, price |-> price, tx |-> tx]

\* The venue's price decoder applied to a log's event arguments.
price_from_swap(v, args) ==
    IF v = "V2" THEN v2_price_from_swap(args) ELSE v3_price_from_swap(args)

\* A faulty loop: the stop flag is not looked at.
RunTopIgnoreStop ==
    /\ prog = "swapui" /\ pc = "top"
    /\ pc' = "poll" /\ venue' = "V2"
    /\ UNCHANGED <<prog, polled, fn_vars, price_vars, batch, stop, lock, last_spot, v2s, v3s>>
    /\ UNCHANGED <<conn_vars, data_vars, snap_vars, hist_vars>>

\* while not self._stop:
RunTop ==
    /\ prog = "swapui" /\ pc = "top"
    /\ IF stop THEN pc' = "exit" /\ UNCHANGED venue
               ELSE pc' = "poll" /\ venue' = "V2"
    /\ UNCHANGED <<prog, polled, fn_vars, price_vars, batch, stop, lock, last_spot, v2s, v3s>>
    /\ UNCHANGED <<conn_vars, data_vars, snap_vars, hist_vars>>

\* self.v2_filter.get_new_entries() / self.v3_filter.get_new_entries() returns.
RunPoll ==
    /\ prog = "swapui" /\ pc = "poll"
    /\ \E b \in SeqsUpTo(LogsOf(venue), Min(MaxBatch, MaxEvents - events)) :
          /\ batch' = b
          /\ polled' = b
          /\ events' = events + Len(b)
    /\ pc' = "iter"
    /\ UNCHANGED <<prog, fn_vars, price_vars, venue, stop, lock, last_spot, v2s, v3s, pushed>>
    /\ UNCHANGED <<conn_vars, data_vars, snap_vars>>

\* get_new_entries() raises: the except clause of the loop is entered.
RunPollRaise ==
    /\ Event
    /\ prog = "swapui" /\ pc = "poll"
    /\ pc' = "backoff"
    /\ UNCHANGED <<prog, polled, fn_vars, price_vars, venue, batch, stop, lock, last_spot, v2s, v3s>>
    /\ UNCHANGED <<conn_vars, data_vars, snap_vars, pushed>>

\* for log in ...: the batch is exhausted, on to the next venue or the spot refresh.
RunBatchDone ==
    /\ prog = "swapui" /\ pc = "iter" /\ batch = <<>>
    /\ IF venue = "V2" THEN pc' = "poll" /\ venue' = "V3"
                       ELSE pc' = "spot" /\ UNCHANGED venue
    /\ polled' = <<>>
    /\ UNCHANGED <<prog, fn_vars, price_vars, batch, stop, lock, last_spot, v2s, v3s>>
    /\ UNCHANGED <<conn_vars, data_vars, snap_vars, hist_vars>>

\* process_log(log) raises on an entry: nothing catches it inside the for
\* loop, so the rest of the batch is abandoned and the except clause entered.
RunDecodeRaise ==
    /\ prog = "swapui" /\ pc = "iter" /\ batch # <<>>
    /\ ~Head(batch).ok
    /\ pc' = "backoff"
    /\ batch' = <<>>
    /\ polled' = <<>>
    /\ UNCHANGED <<prog, fn_vars, price_vars, venue, stop, lock, last_spot, v2s, v3s>>
    /\ UNCHANGED <<conn_vars, data_vars, snap_vars, hist_vars>>

\* res is None: not an ETH -> USDT swap, the entry is skipped.
RunDecodeSkip ==
    /\ prog = "swapui" /\ pc = "iter" /\ batch # <<>>
    /\ Head(batch).ok
    /\ ~price_from_swap(venue, Head(batch).args).some
    /\ batch' = Tail(batch)
    /\ UNCHANGED <<prog, polled, fn_vars, price_vars, pc, venue, stop, lock, last_spot, v2s, v3s>>
    /\ UNCHANGED <<conn_vars, data_vars, snap_vars, hist_vars>>

\* A faulty ingestion: the trade is applied without taking the lock.
RunDecodeNoLock ==
    /\ prog = "swapui" /\ pc = "iter" /\ batch # <<>>
    /\ Head(batch).ok
    /\ price_from_swap(venue, Head(batch).args).some
    /\ pc' = "push"
    /\ UNCHANGED <<prog, polled, fn_vars, price_vars, venue, batch, stop, lock, last_spot, v2s, v3s>>
    /\ UNCHANGED <<conn_vars, data_vars, snap_vars, hist_vars>>

\* res is a trade: with self.lock is entered.
RunDecodeLock ==
    /\ prog = "swapui" /\ pc = "iter" /\ batch # <<>>
    /\ Head(batch).ok
    /\ price_from_swap(venue, Head(batch).args).some
    /\ Acquire("run")
    /\ pc' = "push"
    /\ UNCHANGED <<prog, polled, fn_vars, price_vars, venue, batch, stop, last_spot, v2s, v3s>>
    /\ UNCHANGED <<conn_vars, data_vars, snap_vars, hist_vars>>

\* A faulty ingestion: the trade is put in front of the window (appendleft).
RunPushFront ==
    /\ prog = "swapui" /\ pc = "push"
    /\ LET res == price_from_swap(venue, Head(batch).args)
           e   == [px |-> res.px, sz |-> res.sz]
       IN  /\ IF venue = "V2"
              THEN /\ v2_trades' = Deque_maxlen(<<e>> \o v2_trades, VWAP_WINDOW)
                   /\ UNCHANGED v3_trades
              ELSE /\ v3_trades' = Deque_maxlen(<<e>> \o v3_trades, VWAP_WINDOW)
                   /\ UNCHANGED v2_trades
           /\ pushed' = [pushed EXCEPT ![venue] = Append(@, e)]
    /\ pc' = "exec"
    /\ UNCHANGED <<prog, polled, fn_vars, price_vars, venue, batch, stop, lock, last_spot, v2s, v3s>>
    /\ UNCHANGED <<conn_vars, recent_execs, series, v2spot, v3spot>>
    /\ UNCHANGED <<snap_vars, events>>

\* self.v2_trades.append((px, eth_sz)) / self.v3_trades.append((px, eth_sz))
RunPush ==
    /\ prog = "swapui" /\ pc = "push"
    /\ LET res == price_from_swap(venue, Head(batch).args)
           e   == [px |-> res.px, sz |-> res.sz]
       IN  /\ IF venue = "V2"
              THEN /\ v2_trades' = Append_maxlen(v2_trades, e, VWAP_WINDOW)
                   /\ UNCHANGED v3_trades
              ELSE /\ v3_trades' = Append_maxlen(v3_trades, e, VWAP_WINDOW)
                   /\ UNCHANGED v2_trades
           /\ pushed' = [pushed EXCEPT ![venue] = Append(@, e)]
    /\ pc' = "exec"
    /\ UNCHANGED <<prog, polled, fn_vars, price_vars, venue, batch, stop, lock, last_spot, v2s, v3s>>
    /\ UNCHANGED <<conn_vars, recent_execs, series, v2spot, v3spot>>
    /\ UNCHANGED <<snap_vars, events>>

\* A faulty ingestion: the lock is still held when the loop goes on.
RunExecKeepLock ==
    /\ prog = "swapui" /\ pc = "exec"
    /\ LET res == price_from_swap(venue, Head(batch).args)
       IN  recent_execs' =
             Append_maxlen(recent_execs,
                           ExecTrade(venue, res.sz, res.px, Head(batch).tx), MaxExecs)
    /\ batch' = Tail(batch)
    /\ pc' = "iter"
    /\ UNCHANGED <<prog, polled, fn_vars, price_vars, venue, stop, lock, last_spot, v2s, v3s>>
    /\ UNCHANGED <<conn_vars, v2_trades, v3_trades, series, v2spot, v3spot>>
    /\ UNCHANGED <<snap_vars, hist_vars>>

\* self.recent_execs.append(ExecTrade(...)), and the with block is left.
RunExec ==
    /\ prog = "swapui" /\ pc = "exec"
    /\ LET res == price_from_swap(venue, Head(batch).args)
       IN  recent_execs' =
             Append_maxlen(recent_execs,
                           ExecTrade(venue, res.sz, res.px, Head(batch).tx), MaxExecs)
    /\ Release("run")
    /\ batch' = Tail(batch)
    /\ pc' = "iter"
    /\ UNCHANGED <<prog, polled, fn_vars, price_vars, venue, stop, last_spot, v2s, v3s>>
    /\ UNCHANGED <<conn_vars, v2_trades, v3_trades, series, v2spot, v3spot>>
    /\ UNCHANGED <<snap_vars, hist_vars>>

\* now - last_spot >= SPOT_REFRESH_SEC: certainly so while last_spot is 0.0,
\* and afterwards whenever enough time has passed.
SpotDue ==
    IF last_spot = 0 THEN UNCHANGED events ELSE Event

\* The refresh is not due yet: on to time.sleep(POLL_SLEEP_SEC).
RunSpotSkip ==
    /\ prog = "swapui" /\ pc = "spot" /\ last_spot # 0
    /\ pc' = "sleep"
    /\ UNCHANGED <<prog, polled, fn_vars, price_vars, venue, batch, stop, lock, last_spot, v2s, v3s>>
    /\ UNCHANGED <<conn_vars, data_vars, snap_vars, hist_vars>>

\* v2s = v2_spot_price(self.w3)
RunSpotV2 ==
    /\ prog = "swapui" /\ pc = "spot" /\ SpotDue
    /\ \E r \in Reserves : v2s' = v2_spot_price(r[1], r[2])
    /\ pc' = "spot_v3"
    /\ UNCHANGED <<prog, polled, fn_vars, price_vars, venue, batch, stop, lock, last_spot, v3s>>
    /\ UNCHANGED <<conn_vars, data_vars, snap_vars, pushed>>

\* getReserves().call() raises: no try around it but the loop's own.
RunSpotV2Raise ==
    /\ Event
    /\ prog = "swapui" /\ pc = "spot" 
    /\ pc' = "backoff"
    /\ UNCHANGED <<prog, polled, fn_vars, price_vars, venue, batch, stop, lock, last_spot, v2s, v3s>>
    /\ UNCHANGED <<conn_vars, data_vars, snap_vars, pushed>>

\* v3s = v3_spot_price(self.w3)
RunSpotV3 ==
    /\ prog = "swapui" /\ pc = "spot_v3"
    /\ \E q \in SqrtPrices : v3s' = v3_spot_price(q)
    /\ pc' = "spot_lock"
    /\ UNCHANGED <<prog, polled, fn_vars, price_vars, venue, batch, stop, lock, last_spot, v2s>>
    /\ UNCHANGED <<conn_vars, data_vars, snap_vars, hist_vars>>

\* slot0().call() raises; the local v2s is dead from here on.
RunSpotV3Raise ==
    /\ Event
    /\ prog = "swapui" /\ pc = "spot_v3"
    /\ pc' = "backoff"
    /\ v2s' = None
    /\ UNCHANGED <<prog, polled, fn_vars, price_vars, venue, batch, stop, lock, last_spot, v3s>>
    /\ UNCHANGED <<conn_vars, data_vars, snap_vars, pushed>>

\* A faulty combined VWAP: over all entries of both windows.
CombinedVwapAll == vwap(v2_trades \o v3_trades)

\* comb = vwap(deque(list(self.v2_trades) + list(self.v3_trades), maxlen=VWAP_WINDOW))
CombinedVwap == vwap(Deque_maxlen(v2_trades \o v3_trades, VWAP_WINDOW))

\* comb is computed (only this thread writes the windows) and the lock taken.
RunSpotLock ==
    /\ prog = "swapui" /\ pc = "spot_lock"
    /\ Acquire("run")
    /\ pc' = "spot_v2spot"
    /\ UNCHANGED <<prog, polled, fn_vars, price_vars, venue, batch, stop, last_spot, v2s, v3s>>
    /\ UNCHANGED <<conn_vars, data_vars, snap_vars, hist_vars>>

\* self.v2spot = v2s, inside the with block
RunSpotSetV2 ==
    /\ prog = "swapui" /\ pc = "spot_v2spot"
    /\ v2spot' = v2s
    /\ pc' = "spot_v3spot"
    /\ UNCHANGED <<prog, polled, fn_vars, price_vars, venue, batch, stop, lock, last_spot, v2s, v3s>>
    /\ UNCHANGED <<conn_vars, v2_trades, v3_trades, recent_execs, series, v3spot>>
    /\ UNCHANGED <<snap_vars, hist_vars>>

\* self.v3spot = v3s
RunSpotSetV3 ==
    /\ prog = "swapui" /\ pc = "spot_v3spot"
    /\ v3spot' = v3s
    /\ pc' = "spot_store"
    /\ UNCHANGED <<prog, polled, fn_vars, price_vars, venue, batch, stop, lock, last_spot, v2s, v3s>>
    /\ UNCHANGED <<conn_vars, v2_trades, v3_trades, recent_execs, series, v2spot>>
    /\ UNCHANGED <<snap_vars, hist_vars>>

\* self.series.append(...), the with block is left; last_spot = now
RunSpotStore ==
    /\ prog = "swapui" /\ pc = "spot_store"
    /\ LET comb == CombinedVwap
       IN  series' = Append_maxlen(series,
                        [v2s |-> v2s, v3s |-> v3s,
                         comb |-> IF Truthy(comb) THEN comb ELSE NaN], MaxSeries)
    /\ Release("run")
    /\ last_spot' = 1
    /\ v2s' = None /\ v3s' = None
    /\ pc' = "sleep"
    /\ UNCHANGED <<prog, polled, fn_vars, price_vars, venue, batch, stop, hist_vars>>
    /\ UNCHANGED <<conn_vars, v2_trades, v3_trades, recent_execs, v2spot, v3spot, snap_vars>>

\* time.sleep(POLL_SLEEP_SEC)
RunSleep ==
    /\ prog = "swapui" /\ pc = "sleep"
    /\ pc' = "top"
    /\ UNCHANGED <<prog, polled, fn_vars, price_vars, venue, batch, stop, lock, last_spot, v2s, v3s>>
    /\ UNCHANGED <<conn_vars, data_vars, snap_vars, hist_vars>>

\* except Exception: time.sleep(5)
RunBackoff ==
    /\ prog = "swapui" /\ pc = "backoff"
    /\ pc' = "rb_w3"
    /\ UNCHANGED <<prog, polled, fn_vars, price_vars, venue, batch, stop, lock, last_spot, v2s, v3s>>
    /\ UNCHANGED <<conn_vars, data_vars, snap_vars, hist_vars>>

\* A faulty handler: reconnecting also throws the rolling windows away.
RunRebuildReset ==
    /\ prog = "swapui" /\ pc = "rb_w3"
    /\ w3' = NewConn
    /\ v2_trades' = <<>> /\ v3_trades' = <<>>
    /\ pc' = "rb_v2f"
    /\ UNCHANGED <<prog, polled, fn_vars, price_vars, venue, batch, stop, lock, last_spot, v2s, v3s>>
    /\ UNCHANGED <<v2_filter, v3_filter, recent_execs, series, v2spot, v3spot>>
    /\ UNCHANGED <<snap_vars, hist_vars>>

\* self.w3 = Web3(...); self.v2 = ...; self.v3 = ...
RunRebuildW3 ==
    /\ prog = "swapui" /\ pc = "rb_w3"
    /\ w3' = NewConn
    /\ pc' = "rb_v2f"
    /\ UNCHANGED <<prog, polled, fn_vars, price_vars, venue, batch, stop, lock, last_spot, v2s, v3s>>
    /\ UNCHANGED <<v2_filter, v3_filter, data_vars, snap_vars, hist_vars>>

\* self.v2_filter = self.w3.eth.filter({"fromBlock": block_number - 10, ...})
RunRebuildV2 ==
    /\ prog = "swapui" /\ pc = "rb_v2f"
    /\ \E h \in Heights : v2_filter' = Filter(w3, h - LOOKBACK_RECONNECT)
    /\ pc' = "rb_v3f"
    /\ UNCHANGED <<prog, polled, fn_vars, price_vars, venue, batch, stop, lock, last_spot, v2s, v3s>>
    /\ UNCHANGED <<w3, v3_filter, data_vars, snap_vars, hist_vars>>

\* A faulty handler: the V3 filter of the old connection is kept.
RunRebuildKeepV3 ==
    /\ prog = "swapui" /\ pc = "rb_v3f"
    /\ pc' = "top"
    /\ UNCHANGED <<prog, polled, fn_vars, price_vars, venue, batch, stop, lock, last_spot, v2s, v3s>>
    /\ UNCHANGED <<conn_vars, data_vars, snap_vars, hist_vars>>

\* self.v3_filter = self.w3.eth.filter({"fromBlock": block_number - 10, ...})
RunRebuildV3 ==
    /\ prog = "swapui" /\ pc = "rb_v3f"
    /\ \E h \in Heights : v3_filter' = Filter(w3, h - LOOKBACK_RECONNECT)
    /\ pc' = "top"
    /\ UNCHANGED <<prog, polled, fn_vars, price_vars, venue, batch, stop, lock, last_spot, v2s, v3s>>
    /\ UNCHANGED <<w3, v2_filter, data_vars, snap_vars, hist_vars>>

\* block_number or eth.filter raises during the rebuild: except Exception: pass
RunRebuildRaise ==
    /\ Event
    /\ prog = "swapui" /\ pc \in {"rb_v2f", "rb_v3f"}
    /\ pc' = "top"
    /\ UNCHANGED <<prog, polled, fn_vars, price_vars, venue, batch, stop, lock, last_spot, v2s, v3s>>
    /\ UNCHANGED <<conn_vars, data_vars, snap_vars, pushed>>

\* Engine.stop(), called from another thread.
Stop ==
    /\ Event
    /\ prog = "swapui" /\ ~stop
    /\ stop' = TRUE
    /\ UNCHANGED <<prog, polled, fn_vars, price_vars, pc, venue, batch, lock, last_spot, v2s, v3s>>
    /\ UNCHANGED <<conn_vars, data_vars, snap_vars, pushed>>

(* ------------------------ Engine.snapshot (swapui.py) ------------------ *)
Reverse(s) == [i \in 1..Len(s) |-> s[Len(s) + 1 - i]]

\* A faulty copy: the dict's field is the Engine's deque itself.
AliasExecs(dq) == [own |-> FALSE, val |-> <<>>]

\* A container field of the returned dict: own says that it is an object of
\* the snapshot's own (a copy); otherwise it is the Engine's deque itself.
\* execs = list(self.recent_execs)[-20:][::-1]
CopyExecs(dq) == [own |-> TRUE, val |-> Reverse(Deque_maxlen(dq, SnapLast))]

\* df = pd.DataFrame(self.series, columns=[...])
CopyFrame(dq) == [own |-> TRUE, val |-> dq]

\* What a reader of the dict finds in a container field.
Contents(field, engine_dq) == IF field.own THEN field.val ELSE engine_dq

\* The dict as its holder sees it.
SnapView ==
    [v2_vwap |-> snap.v2_vwap, v3_vwap |-> snap.v3_vwap,
     v2_spot |-> snap.v2_spot, v3_spot |-> snap.v3_spot,
     execs |-> Contents(snap.execs, recent_execs),
     chart_df |-> Contents(snap.chart_df, series)]

\* with self.lock:
SnapLock ==
    /\ Event
    /\ prog = "swapui" /\ snap_pc = "idle"
    /\ Acquire("snap")
    /\ snap_pc' = "locked"
    /\ UNCHANGED <<prog, polled, fn_vars, price_vars, pc, venue, batch, stop, last_spot, v2s, v3s, snap, out>>
    /\ UNCHANGED <<conn_vars, data_vars, pushed>>

\* v2_v, v3_v, execs, df are computed, and the with block is left.
SnapCopy ==
    /\ prog = "swapui" /\ snap_pc = "locked"
    /\ snap' = [snap EXCEPT !.v2_vwap = vwap(v2_trades),
                            !.v3_vwap = vwap(v3_trades),
                            !.execs = CopyExecs(recent_execs),
                            !.chart_df = CopyFrame(series)]
    /\ Release("snap")
    /\ snap_pc' = "v2_spot"
    /\ UNCHANGED <<prog, polled, fn_vars, price_vars, pc, venue, batch, stop, last_spot, v2s, v3s, out>>
    /\ UNCHANGED <<conn_vars, data_vars, hist_vars>>

\* return {..., "v2_spot": self.v2spot, ...}: evaluated after the with block.
SnapReadV2Spot ==
    /\ prog = "swapui" /\ snap_pc = "v2_spot"
    /\ snap' = [snap EXCEPT !.v2_spot = v2spot]
    /\ snap_pc' = "v3_spot"
    /\ UNCHANGED <<prog, polled, fn_vars, price_vars, pc, venue, batch, stop, lock, last_spot, v2s, v3s, out>>
    /\ UNCHANGED <<conn_vars, data_vars, hist_vars>>

\* return {..., "v3_spot": self.v3spot, ...}: the dict is returned.
SnapReadV3Spot ==
    /\ prog = "swapui" /\ snap_pc = "v3_spot"
    /\ snap' = [snap EXCEPT !.v3_spot = v3spot]
    /\ snap_pc' = "done"
    /\ UNCHANGED <<prog, polled, fn_vars, price_vars, pc, venue, batch, stop, lock, last_spot, v2s, v3s, out>>
    /\ UNCHANGED <<conn_vars, data_vars, hist_vars>>

\* The UI has rendered the dict; st.rerun() will call snapshot() again.
SnapRerun ==
    /\ prog = "swapui" /\ snap_pc = "done"
    /\ snap' = EmptySnap
    /\ snap_pc' = "idle"
    /\ UNCHANGED <<prog, polled, fn_vars, price_vars, pc, venue, batch, stop, lock, last_spot, v2s, v3s, out>>
    /\ UNCHANGED <<conn_vars, data_vars, hist_vars>>

(* ----------------------------- spotprice.py ----------------------------- *)
DEVIATION_WARN_PCT == 1

\* A faulty decoder: any log with USDT out is taken for a trade, so that the
\* guard for eth_in == 0.0 comes into play.
spot_v2_price_usdt_out(args) ==
    LET a0in  == args.amount0In
        a1out == args.amount1Out
    IN  IF a1out.m > 0
        THEN LET eth_in   == Scale(a0in, WETH_DECIMALS)
                 usdt_out == Scale(a1out, USDT_DECIMALS)
                 px == IF Truthy(eth_in) THEN FDiv(usdt_out, eth_in) ELSE Inf
             IN  [some |-> TRUE, px |-> px, sz |-> eth_in]
        ELSE NoRes

\* spotprice.py: as in swapui.py, with a guard for eth_in == 0.0.
spot_v2_price_from_swap(args) ==
    LET a0in  == args.amount0In
        a1out == args.amount1Out
    IN  IF a0in.m > 0 /\ a1out.m > 0
        THEN LET eth_in   == Scale(a0in, WETH_DECIMALS)
                 usdt_out == Scale(a1out, USDT_DECIMALS)
                 px == IF Truthy(eth_in) THEN FDiv(usdt_out, eth_in) ELSE Inf
             IN  [some |-> TRUE, px |-> px, sz |-> eth_in]
        ELSE NoRes

spot_v3_price_from_swap(args) ==
    LET a0 == args.amount0
        a1 == args.amount1
    IN  IF a0.m > 0 /\ a1.m < 0
        THEN LET eth_in   == Scale(a0, WETH_DECIMALS)
                 usdt_out == Scale(Raw(Abs(a1.m), a1.e), USDT_DECIMALS)
                 px == IF Truthy(eth_in) THEN FDiv(usdt_out, eth_in) ELSE Inf
             IN  [some |-> TRUE, px |-> px, sz |-> eth_in]
        ELSE NoRes

spot_price_from_swap(v, args) ==
    IF v = "V2" THEN spot_v2_price_from_swap(args) ELSE spot_v3_price_from_swap(args)

\* 100.0 * (a - b) / b, or None.
pct_diff(a, b) ==
    IF a = None \/ b = None \/ b = Num(0, 1) THEN None
    ELSE FDiv(FMul(Num(100, 1), FSub(a, b)), b)

\* A faulty monitor: a deviation of exactly the threshold is flagged too.
DeviationFromThreshold(vw, spot) ==
    IF vw # None
    THEN LET d == pct_diff(vw, spot)
         IN  IF d # None /\ ~FGt(Num(DEVIATION_WARN_PCT, 1), FAbs(d)) THEN d ELSE None
    ELSE None

\* The warning a venue's refresh prints: d when the VWAP exists, d is not None
\* and abs(d) > DEVIATION_WARN_PCT; None for no warning.
Deviation(vw, spot) ==
    IF vw # None
    THEN LET d == pct_diff(vw, spot)
         IN  IF d # None /\ FGt(FAbs(d), Num(DEVIATION_WARN_PCT, 1)) THEN d ELSE None
    ELSE None

\* while True:
MainTop ==
    /\ prog = "spotprice" /\ pc = "top"
    /\ pc' = "poll" /\ venue' = "V2"
    /\ UNCHANGED <<prog, polled, fn_vars, price_vars, batch, stop, lock, last_spot, v2s, v3s>>
    /\ UNCHANGED <<conn_vars, data_vars, snap_vars, hist_vars>>

\* v2_f.get_new_entries() / v3_f.get_new_entries() returns.
MainPoll ==
    /\ prog = "spotprice" /\ pc = "poll"
    /\ \E b \in SeqsUpTo(LogsOf(venue), Min(MaxBatch, MaxEvents - events)) :
          /\ batch' = b
          /\ polled' = b
          /\ events' = events + Len(b)
    /\ pc' = "iter"
    /\ UNCHANGED <<prog, fn_vars, price_vars, venue, stop, lock, last_spot, v2s, v3s, pushed>>
    /\ UNCHANGED <<conn_vars, data_vars, snap_vars>>

\* get_new_entries() raises.
MainPollRaise ==
    /\ Event
    /\ prog = "spotprice" /\ pc = "poll"
    /\ pc' = "backoff"
    /\ UNCHANGED <<prog, polled, fn_vars, price_vars, venue, batch, stop, lock, last_spot, v2s, v3s>>
    /\ UNCHANGED <<conn_vars, data_vars, snap_vars, pushed>>

\* The batch is exhausted: the next venue, or the VWAP lines and the spot refresh.
MainBatchDone ==
    /\ prog = "spotprice" /\ pc = "iter" /\ batch = <<>>
    /\ IF venue = "V2" THEN pc' = "poll" /\ venue' = "V3"
                       ELSE pc' = "spot" /\ UNCHANGED venue
    /\ polled' = <<>>
    /\ UNCHANGED <<prog, fn_vars, price_vars, batch, stop, lock, last_spot, v2s, v3s>>
    /\ UNCHANGED <<conn_vars, data_vars, snap_vars, hist_vars>>

\* process_log(log) raises inside the for loop: the loop's except is entered.
MainDecodeRaise ==
    /\ prog = "spotprice" /\ pc = "iter" /\ batch # <<>>
    /\ ~Head(batch).ok
    /\ pc' = "backoff"
    /\ batch' = <<>>
    /\ polled' = <<>>
    /\ UNCHANGED <<prog, fn_vars, price_vars, venue, stop, lock, last_spot, v2s, v3s>>
    /\ UNCHANGED <<conn_vars, data_vars, snap_vars, hist_vars>>

\* if not res: continue
MainDecodeSkip ==
    /\ prog = "spotprice" /\ pc = "iter" /\ batch # <<>>
    /\ Head(batch).ok
    /\ ~spot_price_from_swap(venue, Head(batch).args).some
    /\ batch' = Tail(batch)
    /\ UNCHANGED <<prog, polled, fn_vars, price_vars, pc, venue, stop, lock, last_spot, v2s, v3s>>
    /\ UNCHANGED <<conn_vars, data_vars, snap_vars, hist_vars>>

\* v2_win.append((px, eth_sz)) / v3_win.append((px, eth_sz))
MainPush ==
    /\ prog = "spotprice" /\ pc = "iter" /\ batch # <<>>
    /\ Head(batch).ok
    /\ LET res == spot_price_from_swap(venue, Head(batch).args)
           e   == [px |-> res.px, sz |-> res.sz]
       IN  /\ res.some
           /\ IF venue = "V2"
              THEN /\ v2_trades' = Append_maxlen(v2_trades, e, VWAP_WINDOW)
                   /\ UNCHANGED v3_trades
              ELSE /\ v3_trades' = Append_maxlen(v3_trades, e, VWAP_WINDOW)
                   /\ UNCHANGED v2_trades
           /\ pushed' = [pushed EXCEPT ![venue] = Append(@, e)]
    /\ batch' = Tail(batch)
    /\ UNCHANGED <<prog, polled, fn_vars, price_vars, pc, venue, stop, lock, last_spot, v2s, v3s>>
    /\ UNCHANGED <<conn_vars, recent_execs, series, v2spot, v3spot>>
    /\ UNCHANGED <<snap_vars, events>>

\* now - last_spot_t < SPOT_INTERVAL_SEC: no refresh in this iteration.
MainSpotSkip ==
    /\ prog = "spotprice" /\ pc = "spot" /\ last_spot # 0
    /\ pc' = "sleep"
    /\ UNCHANGED <<prog, polled, fn_vars, price_vars, venue, batch, stop, lock, last_spot, v2s, v3s>>
    /\ UNCHANGED <<conn_vars, data_vars, snap_vars, hist_vars>>

\* The refresh is due: what the previous one printed has scrolled away.
MainSpotDue ==
    /\ prog = "spotprice" /\ pc = "spot"
    /\ SpotDue
    /\ out' = NoOutput
    /\ pc' = "spot_v3"
    /\ UNCHANGED <<prog, polled, fn_vars, price_vars, venue, batch, stop, lock, last_spot, v2s, v3s>>
    /\ UNCHANGED <<conn_vars, data_vars, snap_pc, snap, pushed>>

\* try: spot_v3 = v3_spot_price(w3); the spot line, and the warning if any.
MainSpotV3 ==
    /\ prog = "spotprice" /\ pc = "spot_v3"
    /\ \E q \in SqrtPrices :
          LET spot_v3 == v3_spot_price(q)
          IN  out' = [out EXCEPT !.spot_v3 = spot_v3,
                                 !.dev_v3 = Deviation(vwap(v3_trades), spot_v3)]
    /\ pc' = "spot_v2"
    /\ UNCHANGED <<prog, polled, fn_vars, price_vars, venue, batch, stop, lock, last_spot, v2s, v3s>>
    /\ UNCHANGED <<conn_vars, data_vars, snap_pc, snap, hist_vars>>

\* except Exception as e: print("[spot] V3 failed")
MainSpotV3Raise ==
    /\ Event
    /\ prog = "spotprice" /\ pc = "spot_v3"
    /\ pc' = "spot_v2"
    /\ UNCHANGED <<prog, polled, fn_vars, price_vars, venue, batch, stop, lock, last_spot, v2s, v3s>>
    /\ UNCHANGED <<conn_vars, data_vars, snap_vars, pushed>>

\* try: spot_v2 = v2_spot_price(w3); ...; then last_spot_t = now
MainSpotV2 ==
    /\ prog = "spotprice" /\ pc = "spot_v2"
    /\ \E r \in Reserves :
          LET spot_v2 == v2_spot_price(r[1], r[2])
          IN  out' = [out EXCEPT !.spot_v2 = spot_v2,
                                 !.dev_v2 = Deviation(vwap(v2_trades), spot_v2)]
    /\ last_spot' = 1
    /\ pc' = "sleep"
    /\ UNCHANGED <<prog, polled, fn_vars, price_vars, venue, batch, stop, lock, v2s, v3s>>
    /\ UNCHANGED <<conn_vars, data_vars, snap_pc, snap, hist_vars>>

\* except Exception as e: print("[spot] V2 failed"); then last_spot_t = now
MainSpotV2Raise ==
    /\ Event
    /\ prog = "spotprice" /\ pc = "spot_v2"
    /\ last_spot' = 1
    /\ pc' = "sleep"
    /\ UNCHANGED <<prog, polled, fn_vars, price_vars, venue, batch, stop, lock, v2s, v3s>>
    /\ UNCHANGED <<conn_vars, data_vars, snap_vars, pushed>>

\* time.sleep(2)
MainSleep ==
    /\ prog = "spotprice" /\ pc = "sleep"
    /\ pc' = "top"
    /\ UNCHANGED <<prog, polled, fn_vars, price_vars, venue, batch, stop, lock, last_spot, v2s, v3s>>
    /\ UNCHANGED <<conn_vars, data_vars, snap_vars, hist_vars>>

\* except Exception as e: print(...); time.sleep(5)
MainBackoff ==
    /\ prog = "spotprice" /\ pc = "backoff"
    /\ pc' = "rb_w3"
    /\ UNCHANGED <<prog, polled, fn_vars, price_vars, venue, batch, stop, lock, last_spot, v2s, v3s>>
    /\ UNCHANGED <<conn_vars, data_vars, snap_vars, hist_vars>>

\* w3 = Web3(...); v2 = ...; v3 = ...
MainRebuildW3 ==
    /\ prog = "spotprice" /\ pc = "rb_w3"
    /\ w3' = NewConn
    /\ pc' = "rb_v2f"
    /\ UNCHANGED <<prog, polled, fn_vars, price_vars, venue, batch, stop, lock, last_spot, v2s, v3s>>
    /\ UNCHANGED <<v2_filter, v3_filter, data_vars, snap_vars, hist_vars>>

\* v2_f = w3.eth.filter({"fromBlock": w3.eth.block_number-10, ...})
MainRebuildV2 ==
    /\ prog = "spotprice" /\ pc = "rb_v2f"
    /\ \E h \in Heights : v2_filter' = Filter(w3, h - LOOKBACK_RECONNECT)
    /\ pc' = "rb_v3f"
    /\ UNCHANGED <<prog, polled, fn_vars, price_vars, venue, batch, stop, lock, last_spot, v2s, v3s>>
    /\ UNCHANGED <<w3, v3_filter, data_vars, snap_vars, hist_vars>>

\* v3_f = w3.eth.filter({"fromBlock": w3.eth.block_number-10, ...})
MainRebuildV3 ==
    /\ prog = "spotprice" /\ pc = "rb_v3f"
    /\ \E h \in Heights : v3_filter' = Filter(w3, h - LOOKBACK_RECONNECT)
    /\ pc' = "top"
    /\ UNCHANGED <<prog, polled, fn_vars, price_vars, venue, batch, stop, lock, last_spot, v2s, v3s>>
    /\ UNCHANGED <<w3, v2_filter, data_vars, snap_vars, hist_vars>>

\* block_number or eth.filter raises inside the except clause: nothing
\* encloses it, the exception leaves main() and the process ends.
MainRebuildRaise ==
    /\ Event
    /\ prog = "spotprice" /\ pc \in {"rb_v2f", "rb_v3f"}
    /\ pc' = "crashed"
    /\ UNCHANGED <<prog, polled, fn_vars, price_vars, venue, batch, stop, lock, last_spot, v2s, v3s>>
    /\ UNCHANGED <<conn_vars, data_vars, snap_vars, pushed>>

MainNext ==
    \/ MainTop \/ MainPoll \/ MainPollRaise \/ MainBatchDone
    \/ MainDecodeRaise \/ MainDecodeSkip \/ MainPush
    \/ MainSpotSkip \/ MainSpotDue \/ MainSpotV3 \/ MainSpotV3Raise
    \/ MainSpotV2 \/ MainSpotV2Raise \/ MainSleep
    \/ MainBackoff \/ MainRebuildW3 \/ MainRebuildV2 \/ MainRebuildV3
    \/ MainRebuildRaise

(* ------------------------------- price.py ------------------------------ *)
\* What the log source can deliver to price.py.  Transfers: two well-formed
\* ones and one process_log rejects.
TransferLogs ==
    { [ok |-> TRUE, tx |-> "t", args |-> [value |-> Raw(5, 6)]],
      [ok |-> TRUE, tx |-> "u", args |-> [value |-> Raw(25, 5)]],
      [ok |-> FALSE, tx |-> "w", args |-> [value |-> Raw(0, 0)]] }

\* V2 swaps: ETH in, ETH out, and one that moves no ETH.
PriceV2Logs ==
    { [ok |-> TRUE, tx |-> "a",
       args |-> [amount0In |-> Raw(1, 18), amount1In |-> Raw(0, 0),
                 amount0Out |-> Raw(0, 0), amount1Out |-> Raw(2, 9)]],
      [ok |-> TRUE, tx |-> "c",
       args |-> [amount0In |-> Raw(0, 0), amount1In |-> Raw(2, 9),
                 amount0Out |-> Raw(1, 18), amount1Out |-> Raw(0, 0)]],
      [ok |-> TRUE, tx |-> "z",
       args |-> [amount0In |-> Raw(0, 0), amount1In |-> Raw(2, 9),
                 amount0Out |-> Raw(0, 0), amount1Out |-> Raw(1, 9)]] }

\* V3 swaps: ETH in, and one that moves no ETH.
PriceV3Logs ==
    { [ok |-> TRUE, tx |-> "e",
       args |-> [amount0 |-> Raw(1, 18), amount1 |-> Raw(-18, 8)]],
      [ok |-> TRUE, tx |-> "y",
       args |-> [amount0 |-> Raw(0, 0), amount1 |-> Raw(-18, 8)]] }

PriceLogsOf(v) ==
    IF v = "T" THEN TransferLogs ELSE IF v = "V2" THEN PriceV2Logs ELSE PriceV3Logs

\* a - b on raw integers (the inputs share an exponent or one of them is 0).
RawSub(a, b) ==
    IF b.m = 0 THEN a
    ELSE IF a.m = 0 THEN Raw(-b.m, b.e)
    ELSE LET e == Min(a.e, b.e)
         IN  Raw(a.m * Pow10(a.e - e) - b.m * Pow10(b.e - e), e)

\* value_wei_like / (10 ** USDT_DECIMALS)
human_usdt(value) == Scale(value, USDT_DECIMALS)

\* values that are truthy and not inf; their mean, or None.
safe_avg(values) ==
    LET vals == SelectSeq(values, LAMBDA v : Truthy(v) /\ v # Inf)
    IN  IF vals = <<>> THEN None
        ELSE LET RECURSIVE Sum(_)
                 Sum(xs) == IF xs = <<>> THEN Num(0, 1) ELSE FAdd(Head(xs), Sum(Tail(xs)))
             IN  FDiv(Sum(vals), Num(Len(vals), 1))

\* decode_transfer: TransferDetails(block, tx_hash, sender, recipient, amount);
\* the block and the two addresses are carried along and not modelled.
decode_transfer(log) == [tx_hash |-> log.tx, amount |-> human_usdt(log.args.value)]

\* The price of a decoded swap, given the ETH delta and the USDT delta.
\* Web3.from_wei(n, "ether") returns the int 0 for n = 0, raises ValueError for
\* n < 0 and returns a decimal.Decimal for n > 0; usdt is a float, and
\* float / Decimal raises TypeError.  So the decoder returns only when no ETH
\* moved, with price = float("inf"); raises says that it raised.
swap_details(eth_delta, usdt_delta) ==
    IF eth_delta.m = 0
    THEN [raises |-> FALSE, eth |-> Num(0, 1),
          usdt |-> FAbs(human_usdt(usdt_delta)), price |-> Inf]
    ELSE [raises |-> TRUE, eth |-> None, usdt |-> None, price |-> None]

decode_swap_v2(args) ==
    swap_details(RawSub(args.amount0In, args.amount0Out),
                 RawSub(args.amount1In, args.amount1Out))

decode_swap_v3(args) == swap_details(args.amount0, args.amount1)

decode_swap(v, args) == IF v = "V2" THEN decode_swap_v2(args) ELSE decode_swap_v3(args)

\* What every step of price.py leaves alone: the Engine's and spotprice's state.
price_frame ==
    <<prog, polled, fn_vars, stop, lock, last_spot, v2s, v3s, data_vars, snap_vars, pushed, w3>>

\* while True:
PriceTop ==
    /\ prog = "price" /\ pc = "top"
    /\ pc' = "poll" /\ venue' = "T"
    /\ UNCHANGED <<price_frame, batch, events, v2_filter, v3_filter, price_vars>>

\* transfer_filter / v2_filter / v3_filter .get_new_entries() returns.
PricePoll ==
    /\ prog = "price" /\ pc = "poll"
    /\ \E b \in SeqsUpTo(PriceLogsOf(venue), Min(MaxBatch, MaxEvents - events)) :
          /\ batch' = b
          /\ events' = events + Len(b)
    /\ pc' = "iter"
    /\ UNCHANGED <<price_frame, venue, v2_filter, v3_filter, price_vars>>

\* get_new_entries() raises.
PricePollRaise ==
    /\ Event
    /\ prog = "price" /\ pc = "poll"
    /\ pc' = "backoff"
    /\ UNCHANGED <<price_frame, venue, batch, v2_filter, v3_filter, price_vars>>

\* The batch is exhausted: the last-5 total, then the next filter; after the
\* V3 batch the three safe_avg lines.
PriceBatchDone ==
    /\ prog = "price" /\ pc = "iter" /\ batch = <<>>
    /\ IF venue = "T" THEN pc' = "poll" /\ venue' = "V2"
       ELSE IF venue = "V2" THEN pc' = "poll" /\ venue' = "V3"
       ELSE pc' = "sleep" /\ UNCHANGED venue
    /\ UNCHANGED <<price_frame, batch, events, v2_filter, v3_filter, price_vars>>

\* decode_transfer / decode_swap_v2 / decode_swap_v3 raises inside the for loop.
PriceDecodeRaise ==
    /\ prog = "price" /\ pc = "iter" /\ batch # <<>>
    /\ \/ ~Head(batch).ok
       \/ venue # "T" /\ decode_swap(venue, Head(batch).args).raises
    /\ pc' = "backoff"
    /\ batch' = <<>>
    /\ UNCHANGED <<price_frame, venue, events, v2_filter, v3_filter, price_vars>>

\* td = decode_transfer(usdt, log); last50_transfers.append(td); last5_transfers.append(td)
PriceTransfer ==
    /\ prog = "price" /\ pc = "iter" /\ batch # <<>> /\ venue = "T"
    /\ Head(batch).ok
    /\ LET td == decode_transfer(Head(batch))
       IN  /\ last50_transfers' = Append_maxlen(last50_transfers, td, Last50)
           /\ last5_transfers' = Append_maxlen(last5_transfers, td, Last5)
    /\ batch' = Tail(batch)
    /\ UNCHANGED <<price_frame, pc, venue, events, v2_filter, v3_filter, transfer_filter>>
    /\ UNCHANGED <<last5_v2_prices, last5_v3_prices, last5_all_prices>>

\* s = decode_swap_v2(univ2, log); last5_v2_prices.append(s.price);
\* last5_all_prices.append(s.price)   (and the same for V3)
PriceSwap ==
    /\ prog = "price" /\ pc = "iter" /\ batch # <<>> /\ venue # "T"
    /\ Head(batch).ok
    /\ LET sw == decode_swap(venue, Head(batch).args)
       IN  /\ ~sw.raises
           /\ IF venue = "V2"
              THEN /\ last5_v2_prices' = Append_maxlen(last5_v2_prices, sw.price, Last5)
                   /\ UNCHANGED last5_v3_prices
              ELSE /\ last5_v3_prices' = Append_maxlen(last5_v3_prices, sw.price, Last5)
                   /\ UNCHANGED last5_v2_prices
           /\ last5_all_prices' = Append_maxlen(last5_all_prices, sw.price, Last5)
    /\ batch' = Tail(batch)
    /\ UNCHANGED <<price_frame, pc, venue, events, v2_filter, v3_filter, transfer_filter>>
    /\ UNCHANGED <<last5_transfers, last50_transfers>>

\* time.sleep(2)
PriceSleep ==
    /\ prog = "price" /\ pc = "sleep"
    /\ pc' = "top"
    /\ UNCHANGED <<price_frame, venue, batch, events, v2_filter, v3_filter, price_vars>>

\* except Exception as e: print(...); time.sleep(5)
PriceBackoff ==
    /\ prog = "price" /\ pc = "backoff"
    /\ pc' = "rb_w3"
    /\ UNCHANGED <<price_frame, venue, batch, events, v2_filter, v3_filter, price_vars>>

\* try: w3 = Web3(...); usdt = ...; univ2 = ...; univ3 = ...
PriceRebuildW3 ==
    /\ prog = "price" /\ pc = "rb_w3"
    /\ w3' = NewConn
    /\ pc' = "rb_tf"
    /\ UNCHANGED <<prog, polled, fn_vars, stop, lock, last_spot, v2s, v3s, data_vars>>
    /\ UNCHANGED <<snap_vars, pushed, venue, batch, events, v2_filter, v3_filter, price_vars>>

\* latest_block = w3.eth.block_number; from_block = max(0, latest_block - 50);
\* transfer_filter = w3.eth.filter({"fromBlock": from_block, ...})
PriceRebuildTransfer ==
    /\ prog = "price" /\ pc = "rb_tf"
    /\ \E latest_block \in Heights :
          transfer_filter' = Filter(w3, Max(0, latest_block - LOOKBACK_INIT))
    /\ pc' = "rb_v2f"
    /\ UNCHANGED <<price_frame, venue, batch, events, v2_filter, v3_filter, price_data>>

\* v2_filter = w3.eth.filter({"fromBlock": from_block, ...}): from_block is
\* the one the transfer filter has just been made from.
PriceRebuildV2 ==
    /\ prog = "price" /\ pc = "rb_v2f"
    /\ v2_filter' = Filter(w3, transfer_filter.from)
    /\ pc' = "rb_v3f"
    /\ UNCHANGED <<price_frame, venue, batch, events, v3_filter, price_vars>>

\* v3_filter = w3.eth.filter({"fromBlock": from_block, ...})
PriceRebuildV3 ==
    /\ prog = "price" /\ pc = "rb_v3f"
    /\ v3_filter' = Filter(w3, transfer_filter.from)
    /\ pc' = "top"
    /\ UNCHANGED <<price_frame, venue, batch, events, v2_filter, price_vars>>

\* except Exception as e2: print(...); time.sleep(5)
PriceRebuildRaise ==
    /\ Event
    /\ prog = "price" /\ pc \in {"rb_tf", "rb_v2f", "rb_v3f"}
    /\ pc' = "top"
    /\ UNCHANGED <<price_frame, venue, batch, v2_filter, v3_filter, price_vars>>

PriceNext ==
    \/ PriceTop \/ PricePoll \/ PricePollRaise \/ PriceBatchDone
    \/ PriceDecodeRaise \/ PriceTransfer \/ PriceSwap \/ PriceSleep
    \/ PriceBackoff \/ PriceRebuildW3 \/ PriceRebuildTransfer
    \/ PriceRebuildV2 \/ PriceRebuildV3 \/ PriceRebuildRaise

EngineNext ==
    \/ RunTop \/ RunPoll \/ RunPollRaise \/ RunBatchDone
    \/ RunDecodeRaise \/ RunDecodeSkip \/ RunDecodeLock \/ RunPush \/ RunExec
    \/ RunSpotSkip \/ RunSpotV2 \/ RunSpotV2Raise \/ RunSpotV3 \/ RunSpotV3Raise
    \/ RunSpotLock \/ RunSpotSetV2 \/ RunSpotSetV3 \/ RunSpotStore \/ RunSleep
    \/ RunBackoff \/ RunRebuildW3 \/ RunRebuildV2 \/ RunRebuildV3 \/ RunRebuildRaise
    \/ Stop
    \/ SnapLock \/ SnapCopy \/ SnapReadV2Spot \/ SnapReadV3Spot \/ SnapRerun

Next == EngineNext \/ MainNext \/ PriceNext

Spec == Init /\ [][Next]_vars

(* ----------------------- vwap() exercised on its own -------------------- *)
\* The (price, weight) pairs vwap() is tried on: integer prices, and weights
\* that may be zero or cancel out.
VwapPairs == { [px |-> Num(p, 1), sz |-> Num(w, 1)] : p \in {0, 10, 20}, w \in {-1, 0, 1, 2} }

InitVwap ==
    /\ prog = "vwap"
    /\ Start
    /\ fn_arg \in SeqsUpTo(VwapPairs, MaxItems)
    /\ fn_res = NoCall

\* vwap(items) is called and returns.
CallVwap ==
    /\ prog = "vwap" /\ ~fn_res.done
    /\ fn_res' = [done |-> TRUE, val |-> vwap(fn_arg)]
    /\ UNCHANGED <<prog, polled, fn_arg, pc, venue, batch, stop, lock, last_spot, v2s, v3s>>
    /\ UNCHANGED <<conn_vars, data_vars, snap_vars, hist_vars, price_vars>>

NextVwap == CallVwap

SpecVwap == InitVwap /\ [][NextVwap]_vars

(* ------------- further functions exercised on their own ---------------- *)
\* VWAPs and spot prices the deviation monitor is tried on: a VWAP that is
\* absent, below, at and above a spot of 1800 by 1 % and by more; a spot
\* that is zero, 1800 or inf.
DevVwaps == {None, Num(1781, 1), Num(1782, 1), Num(1800, 1), Num(1818, 1), Num(1819, 1)}

DevSpots == {Num(0, 1), Num(1800, 1), Inf}

\* Prices a rolling window of price.py is tried with.
AvgValues == {Num(0, 1), Num(10, 1), Num(20, 1), Num(30, 1), Inf}

\* getReserves() results v2_spot_price is tried on.
SpotReserves == Reserves \cup { <<Raw(2, 20), Raw(18, 10)>> }

InitPure ==
    /\ Start
    /\ fn_res = NoCall
    /\ \/ prog = "pct_diff" /\ fn_arg \in DevVwaps \X DevSpots
       \/ prog = "safe_avg" /\ fn_arg \in SeqsUpTo(AvgValues, MaxItems)
       \/ prog = "v2_spot_price" /\ fn_arg \in SpotReserves \X DevVwaps

pure_frame ==
    <<prog, polled, fn_arg, pc, venue, batch, stop, lock, last_spot, v2s, v3s,
      conn_vars, data_vars, snap_vars, hist_vars, price_vars>>

\* if v_v is not None: d = pct_diff(v_v, spot); if d is not None and
\* abs(d) > DEVIATION_WARN_PCT: the warning is printed.
CallDeviation ==
    /\ prog = "pct_diff" /\ ~fn_res.done
    /\ fn_res' = [done |-> TRUE, val |-> Deviation(fn_arg[1], fn_arg[2])]
    /\ UNCHANGED pure_frame

\* safe_avg(values) is called and returns.
CallSafeAvg ==
    /\ prog = "safe_avg" /\ ~fn_res.done
    /\ fn_res' = [done |-> TRUE, val |-> safe_avg(fn_arg)]
    /\ UNCHANGED pure_frame

\* spot_v2 = v2_spot_price(w3), with getReserves() returning fn_arg[1], and
\* the deviation check of the V2 VWAP fn_arg[2] against it.
CallV2Spot ==
    /\ prog = "v2_spot_price" /\ ~fn_res.done
    /\ LET spot_v2 == v2_spot_price(fn_arg[1][1], fn_arg[1][2])
       IN  fn_res' = [done |-> TRUE,
                      val |-> [spot |-> spot_v2, dev |-> Deviation(fn_arg[2], spot_v2)]]
    /\ UNCHANGED pure_frame

NextPure == CallDeviation \/ CallSafeAvg \/ CallV2Spot

SpecPure == InitPure /\ [][NextPure]_vars

(* ------------------------------ properties ---------------------------- *)
Venues == {"V2", "V3"}

Supervised == prog \in {"swapui", "spotprice"}

\* The positions of the except clause of the loop.
HandlerPcs == {"backoff", "rb_w3", "rb_tf", "rb_v2f", "rb_v3f"}

\* a is the tail end of b.
IsSuffix(a, b) ==
    /\ Len(a) <= Len(b)
    /\ \A i \in 1..Len(a) : a[i] = b[Len(b) - Len(a) + i]

\* C1: after any sequence of pushes a venue's window holds the most recent
\* min(n, K) pushed entries, in push order, and never more than K of them.
C1_WindowIsLastK ==
    Supervised =>
      \A v \in Venues :
        LET n == Len(pushed[v])
            m == IF n < VWAP_WINDOW THEN n ELSE VWAP_WINDOW
        IN  /\ Len(Trades(v)) = m
            /\ Len(Trades(v)) <= VWAP_WINDOW
            /\ \A i \in 1..m : Trades(v)[i] = pushed[v][n - m + i]

\* More than K entries were pushed to a venue: the oldest has been evicted.
C1_Evicted ==
    /\ Supervised
    /\ \E v \in Venues : Len(pushed[v]) > VWAP_WINDOW /\ Len(Trades(v)) = VWAP_WINDOW

\* C2: a log entry that fails to decode does not send the supervisor to the
\* backoff; the entries after it in the batch are still worked through.
C2_DecodeFailureIsLocal ==
    [][(Supervised /\ pc = "iter" /\ batch # <<>> /\ ~Head(batch).ok /\ pc' # pc)
         => (pc' # "backoff" /\ batch' = Tail(batch))]_vars

\* C3: no failure ends the supervisor: the loop is only ever left because
\* stop was requested, also when the rebuild of the handler itself fails.
C3_SupervisorKeepsRunning ==
    /\ pc # "crashed"
    /\ pc = "exit" => stop

\* C4: while the supervisor is in its error handler the windows, the trade
\* log, the series and the stored spot prices keep their contents.
C4_HandlerKeepsData ==
    [][(pc \in HandlerPcs) => UNCHANGED <<data_vars, price_data>>]_vars

\* The Engine is rebuilding its filters with trades, a series row and spot
\* prices accumulated before the failure.
C4_HandlerWithData ==
    /\ prog = "swapui" /\ pc = "rb_v3f"
    /\ v2_trades # <<>> /\ recent_execs # <<>> /\ series # <<>>
    /\ v2spot # None /\ v3spot # None

\* C5: from the backoff sleep the supervisor goes straight to the rebuild;
\* a rebuild the source accepts makes a new connection and both venue
\* filters on it, and ends at the top of the polling loop.
C5_OneBackoffThenPolling ==
    [][(Supervised /\ pc' # pc) =>
         /\ pc = "backoff" => pc' = "rb_w3"
         /\ pc = "rb_w3" => pc' = "rb_v2f" /\ w3' # w3
         /\ (pc = "rb_v2f" /\ events' = events)
               => pc' = "rb_v3f" /\ v2_filter'.conn = w3'
         /\ (pc = "rb_v3f" /\ events' = events)
               => pc' = "top" /\ v2_filter'.conn = w3' /\ v3_filter'.conn = w3'
         /\ (pc = "top" /\ ~stop) => pc' = "poll" /\ venue' = "V2"]_vars

\* One failure, one rebuild, and the loop is polling on the new connection.
C5_Resumed ==
    /\ Supervised /\ pc = "poll" /\ ~stop
    /\ events = 1 /\ w3 = 1 /\ v2_filter.conn = 1 /\ v3_filter.conn = 1

\* C6: a spot query that fails for one venue does not send the supervisor
\* to the backoff: the refresh goes on to the other venue.
C6_SpotFailureIsLocal ==
    [][(Supervised /\ pc \in {"spot", "spot_v3", "spot_v2"}) => pc' # "backoff"]_vars

\* C7: the spot prices of a returned snapshot come from one refresh: they
\* are those of the last row of the snapshot's series, or both absent when
\* the series is empty.
C7_SnapshotSpotsOfOneRefresh ==
    (prog = "swapui" /\ snap_pc = "done") =>
        LET df == snap.chart_df.val
        IN  IF df = <<>>
            THEN snap.v2_spot = None /\ snap.v3_spot = None
            ELSE /\ snap.v2_spot = df[Len(df)].v2s
                 /\ snap.v3_spot = df[Len(df)].v3s

\* The trades of a venue in the trade log, as window entries.
RECURSIVE ExecsOf(_, _)
ExecsOf(execs, v) ==
    IF execs = <<>> THEN <<>>
    ELSE LET x == Head(execs)
         IN  (IF x.pool = v THEN <<[px |-> x.price, sz |-> x.eth_size]>> ELSE <<>>)
                \o ExecsOf(Tail(execs), v)

\* Every pushed trade is in the trade log (as far as its capacity goes).
NoHalfAppliedTrade ==
    LET total == Len(pushed["V2"]) + Len(pushed["V3"])
    IN  /\ Len(recent_execs) = (IF total < MaxExecs THEN total ELSE MaxExecs)
        /\ \A v \in Venues : IsSuffix(ExecsOf(recent_execs, v), pushed[v])

\* C8: a snapshot holding the lock never finds a trade in its window but
\* not in the trade log, and a returned snapshot shows a VWAP exactly when it
\* shows a trade.
C8_TradeSeenWhole ==
    prog = "swapui" =>
      /\ snap_pc = "locked" => NoHalfAppliedTrade
      /\ snap_pc \in {"v2_spot", "v3_spot", "done"} =>
            ((snap.v2_vwap = None /\ snap.v3_vwap = None) <=> snap.execs.val = <<>>)

\* A snapshot showing a trade has returned while the supervisor is in the
\* middle of applying the next one.
C8_SnapshotDuringIngestion ==
    /\ prog = "swapui" /\ snap_pc = "done" /\ snap.execs.val # <<>>
    /\ pc = "exec" /\ lock = "run"

\* C9: what the holder of a returned snapshot finds in it never changes,
\* whatever the supervisor does afterwards.
C9_SnapshotImmutable ==
    [][(snap_pc = "done" /\ snap_pc' = "done") => SnapView' = SnapView]_vars

\* A returned snapshot whose trade list is no longer that of the Engine.
C9_EngineMovedOn ==
    /\ prog = "swapui" /\ snap_pc = "done"
    /\ snap.execs.val # Reverse(Deque_maxlen(recent_execs, SnapLast))

\* The totals of a window of integer prices and weights, by index.
RECURSIVE WeightTotal(_, _)
WeightTotal(items, i) ==
    IF i = 0 THEN 0 ELSE items[i].sz.n + WeightTotal(items, i - 1)

RECURSIVE WeightedTotal(_, _)
WeightedTotal(items, i) ==
    IF i = 0 THEN 0 ELSE items[i].px.n * items[i].sz.n + WeightedTotal(items, i - 1)

SpecExample ==
    <<[px |-> Num(10, 1), sz |-> Num(2, 1)], [px |-> Num(20, 1), sz |-> Num(1, 1)]>>

\* C10: vwap is (sum of price * weight) / (sum of weight); it is None, never
\* zero, for an empty window and for a zero weight sum; [(10,2),(20,1)]
\* gives 40/3.
C10_VwapFormula ==
    (prog = "vwap" /\ fn_res.done) =>
        LET W  == WeightTotal(fn_arg, Len(fn_arg))
            PW == WeightedTotal(fn_arg, Len(fn_arg))
            r  == fn_res.val
        IN  /\ (fn_arg = <<>> \/ W = 0) => r = None
            /\ (fn_arg # <<>> /\ W # 0) => r.k = "num" /\ r.n * W = PW * r.d
            /\ fn_arg = SpecExample => r = Num(40, 3)

\* vwap has returned 40/3 for the window [(10, 2), (20, 1)].
C10_ExampleComputed ==
    /\ prog = "vwap" /\ fn_res.done
    /\ fn_arg = SpecExample /\ fn_res.val = Num(40, 3)

\* (quote / 10^6) / (base / 10^18) for raw amounts quote = m * 10^e of USDT
\* and base of WETH, from the mantissas and exponents.
QuotePerBase(quote, base) ==
    LET k == quote.e - base.e + (WETH_DECIMALS - USDT_DECIMALS)
    IN  IF k >= 0 THEN Num(Abs(quote.m) * Pow10(k), base.m)
                  ELSE Num(Abs(quote.m), base.m * Pow10(-k))

\* base / 10^18
BaseUnits(base) ==
    IF base.e >= WETH_DECIMALS THEN Num(base.m * Pow10(base.e - WETH_DECIMALS), 1)
    ELSE Num(base.m, Pow10(WETH_DECIMALS - base.e))

Last(s) == s[Len(s)]

\* The supervisor is done with the first entry of venue v's batch, which
\* process_log accepted.
EntryConsumed(v) ==
    /\ Supervised /\ venue = v /\ pc \in {"iter", "exec"}
    /\ batch # <<>> /\ Head(batch).ok
    /\ batch' = Tail(batch)

\* What consuming an entry does: a trade of the given amounts ends up
\* newest in the venue's window (and in the Engine's trade log); any other
\* entry leaves windows and trade log alone.
ConsumedAs(v, isTrade, quote, base) ==
    IF isTrade
    THEN /\ Trades(v)' # <<>>
         /\ Last(Trades(v)') = [px |-> QuotePerBase(quote, base), sz |-> BaseUnits(base)]
         /\ Last(pushed'[v]) = Last(Trades(v)')
         /\ prog = "swapui" =>
               /\ recent_execs' # recent_execs
               /\ Last(recent_execs') =
                     ExecTrade(v, BaseUnits(base), QuotePerBase(quote, base), Head(batch).tx)
    ELSE UNCHANGED <<v2_trades, v3_trades, recent_execs, pushed>>

\* C11: a V2 log is a trade, pushed to the V2 window with price
\* (amount1Out/10^6)/(amount0In/10^18) and weight amount0In/10^18, exactly
\* when amount0In > 0 and amount1Out > 0; any other log changes no window
\* and no trade log.
C11_V2DecodeAndPush ==
    [][/\ EntryConsumed("V2") =>
             LET a == Head(batch).args
             IN  ConsumedAs("V2", a.amount0In.m > 0 /\ a.amount1Out.m > 0,
                            a.amount1Out, a.amount0In)
       /\ (Supervised /\ v2_trades' # v2_trades) =>
             /\ venue = "V2" /\ batch # <<>> /\ Head(batch).ok
             /\ Head(batch).args.amount0In.m > 0
             /\ Head(batch).args.amount1Out.m > 0]_vars

\* The first V2 batch held two entries: the swap of 1e18 wei for 2000e6 was
\* pushed as (2000, 1), the other entry was filtered out.
C11_OnePushedOneFiltered ==
    /\ prog = "spotprice" /\ pc = "iter" /\ venue = "V2" /\ batch = <<>>
    /\ events = 2 /\ last_spot = 0 /\ w3 = 0
    /\ v2_trades = <<[px |-> Num(2000, 1), sz |-> Num(1, 1)]>>

\* C12: a V3 log is a trade, pushed to the V3 window with price
\* (|amount1|/10^6)/(amount0/10^18) and weight amount0/10^18, exactly when
\* amount0 > 0 and amount1 < 0; any other sign combination changes no
\* window and no trade log.
C12_V3DecodeAndPush ==
    [][/\ EntryConsumed("V3") =>
             LET a == Head(batch).args
             IN  ConsumedAs("V3", a.amount0.m > 0 /\ a.amount1.m < 0,
                            a.amount1, a.amount0)
       /\ (Supervised /\ v3_trades' # v3_trades) =>
             /\ venue = "V3" /\ batch # <<>> /\ Head(batch).ok
             /\ Head(batch).args.amount0.m > 0
             /\ Head(batch).args.amount1.m < 0]_vars

\* The first V3 batch held two entries: the swap of +1e18 / -1800e6 was
\* pushed as (1800, 1), the other entry was filtered out.
C12_V3OnePushedOneFiltered ==
    /\ prog = "spotprice" /\ pc = "iter" /\ venue = "V3" /\ batch = <<>>
    /\ events = 2 /\ last_spot = 0 /\ w3 = 0
    /\ v2_trades = <<>>
    /\ v3_trades = <<[px |-> Num(1800, 1), sz |-> Num(1, 1)]>>

\* C13: a deviation flag is raised exactly when the VWAP is available, the
\* spot is a non-zero number and |100 * (vwap - spot) / spot| is strictly
\* above the threshold; vwap 1818 against spot 1800, exactly 1 %, raises
\* none, and neither does an undefined deviation.
C13_FlagOnlyAboveThreshold ==
    (prog = "pct_diff" /\ fn_res.done) =>
        LET vw      == fn_arg[1]
            spot    == fn_arg[2]
            flagged == fn_res.val # None
        IN  /\ flagged <=>
                 /\ vw # None /\ spot.k = "num" /\ spot.n # 0
                 /\ 100 * Abs(vw.n - spot.n) > DEVIATION_WARN_PCT * Abs(spot.n)
            /\ (vw = Num(1818, 1) /\ spot = Num(1800, 1)) => ~flagged
            /\ (vw = None \/ spot = Num(0, 1) \/ spot = Inf) => ~flagged

\* The monitor has compared a VWAP of 1818 with a spot of 1800 and raised
\* no flag.
C13_AtThresholdNoFlag ==
    /\ prog = "pct_diff" /\ fn_res.done
    /\ fn_arg = <<Num(1818, 1), Num(1800, 1)>> /\ fn_res.val = None

\* The entries of a price window that are not the inf sentinel: how many,
\* and their total (integer prices).
RECURSIVE KeptCount(_, _)
KeptCount(values, i) ==
    IF i = 0 THEN 0
    ELSE (IF values[i] # Inf THEN 1 ELSE 0) + KeptCount(values, i - 1)

RECURSIVE KeptTotal(_, _)
KeptTotal(values, i) ==
    IF i = 0 THEN 0
    ELSE (IF values[i] # Inf THEN values[i].n ELSE 0) + KeptTotal(values, i - 1)

\* C14: the simple average is the mean of all stored entries other than
\* the inf sentinel, a stored price of 0 included, and is unavailable only
\* when no such entry remains.
C14_MeanOfAllButSentinel ==
    (prog = "safe_avg" /\ fn_res.done) =>
        LET n == KeptCount(fn_arg, Len(fn_arg))
            t == KeptTotal(fn_arg, Len(fn_arg))
        IN  IF n = 0 THEN fn_res.val = None ELSE fn_res.val = Num(t, n)

\* C15: the V2 spot price of reserves (r0, r1) is (r1/10^6)/(r0/10^18),
\* 1800 for (100e18, 180000e6); with r0 = 0 it is the undefined value, not
\* a number, and then no deviation flag is raised.
C15_SpotFromReserves ==
    (prog = "v2_spot_price" /\ fn_res.done) =>
        LET r0 == fn_arg[1][1]
            r1 == fn_arg[1][2]
            r  == fn_res.val
        IN  /\ r0.m # 0 => r.spot = QuotePerBase(r1, r0)
            /\ (r0 = Raw(100, 18) /\ r1 = Raw(18, 10)) => r.spot = Num(1800, 1)
            /\ r0.m = 0 => r.spot = Inf /\ r.dev = None

\* The spot of a pool without ETH was computed while a VWAP was available:
\* it is undefined and no flag was raised.
C15_UndefinedSpotNoFlag ==
    /\ prog = "v2_spot_price" /\ fn_res.done
    /\ fn_arg = <<<<Raw(0, 0), Raw(18, 10)>>, Num(1818, 1)>>
    /\ fn_res.val = [spot |-> Inf, dev |-> None]

\* How far the supervisor is from leaving a loop whose stop flag is set:
\* the steps left in the iteration or handler in progress, at most.
DistanceToExit ==
    LET entry == 3 * Len(batch)
        phase == 3 * MaxBatch + 2
    IN  CASE pc = "exit"       -> 0
          [] pc = "top"        -> 1
          [] pc = "sleep"      -> 2
          [] pc = "rb_v3f"     -> 2
          [] pc = "rb_v2f"     -> 3
          [] pc = "rb_w3"      -> 4
          [] pc = "backoff"    -> 5
          [] pc = "spot_store" -> 6
          [] pc = "spot_v3spot" -> 7
          [] pc = "spot_v2spot" -> 8
          [] pc = "spot_lock"  -> 9
          [] pc = "spot_v3"    -> 10
          [] pc = "spot"       -> 11
          [] pc = "poll"       -> (IF venue = "V2" THEN 2 * phase ELSE phase) + 11
          [] pc = "iter"       -> (IF venue = "V2" THEN phase ELSE 0) + 12 + entry
          [] pc = "push"       -> (IF venue = "V2" THEN phase ELSE 0) + 12 + entry - 1
          [] pc = "exec"       -> (IF venue = "V2" THEN phase ELSE 0) + 12 + entry - 2

\* C16: the supervisor tests the stop flag at the top of its loop.  With
\* the flag set, every step it takes brings it nearer to the exit: it ends
\* the iteration or handler in progress, starts no other, and leaves the
\* loop at its top.  It never exits with the flag unset, and once it has
\* exited nothing of the Engine's data or handles changes any more.
C16_StopObservedAtTop ==
    [][prog = "swapui" =>
         /\ (pc = "top" /\ stop /\ pc' # pc) => pc' = "exit"
         /\ (stop /\ <<pc, batch>>' # <<pc, batch>>) => DistanceToExit' < DistanceToExit
         /\ pc' = "exit" => stop
         /\ stop => stop'
         /\ pc = "exit" => (pc' = "exit" /\ UNCHANGED <<data_vars, conn_vars>>)]_vars

\* The supervisor has exited on stop(), after ingesting a trade and going
\* through its error handler.
C16_ExitedOnStop ==
    /\ prog = "swapui" /\ stop /\ pc = "exit"
    /\ recent_execs # <<>> /\ w3 > 0

\* The positions at which the supervisor only changes memory under the lock.
LockedPcs == {"push", "exec", "spot_v2spot", "spot_v3spot", "spot_store"}

\* The positions at which it polls a filter, queries a pool, sleeps, or
\* makes a connection or a filter.
IoPcs == {"poll", "spot", "spot_v3", "sleep", "backoff", "rb_w3", "rb_v2f", "rb_v3f"}

\* C17: the supervisor holds the lock only while it pushes to a window,
\* appends to the trade log or stores spots and a series row; it never
\* holds it at a poll, a spot query, a sleep or a connection/filter creation.
C17_NoLockAcrossIO ==
    prog = "swapui" =>
        /\ lock = "run" => pc \in LockedPcs
        /\ pc \in IoPcs => lock # "run"

\* The supervisor holds the lock to store a refresh while snapshot() has
\* returned to its caller.
C17_LockHeldForStore ==
    /\ prog = "swapui" /\ lock = "run" /\ pc = "spot_store"
    /\ snap_pc = "done"

\* The filter the loop polls for a venue.
FilterOf(v) ==
    CASE v = "V2" -> v2_filter
      [] v = "V3" -> v3_filter
      [] v = "T"  -> transfer_filter

\* C18: the loop polls a filter only after a rebuild that succeeded: the
\* filter it polls was made on the current connection, never one left over
\* from before a failed rebuild.
C18_PollsOnlyRebuiltFilters ==
    (prog \in {"swapui", "price"} /\ pc = "poll") => FilterOf(venue).conn = w3

\* C19: both venue filters of a connection start at the same block, the
\* chain height minus the lookback of 50 and not below 0, at startup and
\* after every reconnect.
C19_OneStartBlock ==
    Supervised =>
        /\ v2_filter.conn = v3_filter.conn => v2_filter.from = v3_filter.from
        /\ \A f \in {v2_filter, v3_filter} :
              \E h \in Heights : f.from = Max(0, h - LOOKBACK_INIT)

\* The view the combined VWAP is taken over: the last K entries of the V2
\* window followed by the V3 window.
CombinedView ==
    LET all == v2_trades \o v3_trades
        n   == Len(all)
        m   == IF n < VWAP_WINDOW THEN n ELSE VWAP_WINDOW
    IN  [i \in 1..m |-> all[n - m + i]]

\* x is total / weight (prices and weights in the windows are integers).
IsQuotient(x, total, weight) ==
    x.k = "num" /\ x.n * weight = total * x.d

\* C20: the combined VWAP a refresh stores is the vwap formula over the
\* last K entries of (V2 window, then V3 window) as they are at that
\* refresh, nan when there is none; with K entries in the V3 window it is
\* the V3 VWAP.
C20_CombinedOverLastK ==
    [][(prog = "swapui" /\ pc = "spot_store" /\ pc' = "sleep") =>
         LET view == CombinedView
             W    == WeightTotal(view, Len(view))
             PW   == WeightedTotal(view, Len(view))
             W3   == WeightTotal(v3_trades, Len(v3_trades))
             PW3  == WeightedTotal(v3_trades, Len(v3_trades))
             comb == Last(series').comb
         IN  /\ \A i \in 1..Len(view) : view[i].px.d = 1 /\ view[i].sz.d = 1
             /\ IF view = <<>> \/ W = 0 \/ PW = 0 THEN comb = NaN
                ELSE IsQuotient(comb, PW, W)
             /\ Len(v3_trades) = VWAP_WINDOW => IsQuotient(comb, PW3, W3)]_vars

\* A refresh has stored a combined VWAP of 1800, that of the full V3
\* window, while the V2 window holds a trade at 2000.
C20_V3FillsTheView ==
    /\ prog = "swapui" /\ pc = "sleep" /\ series # <<>>
    /\ Len(v3_trades) = VWAP_WINDOW
    /\ v2_trades = <<[px |-> Num(2000, 1), sz |-> Num(1, 1)]>>
    /\ Last(series).comb = Num(1800, 1)

\* The trades among the given entries of venue v, as the running script's
\* decoder sees them, in the order of the entries.
RECURSIVE Accepted(_, _)
Accepted(v, logs) ==
    IF logs = <<>> THEN <<>>
    ELSE LET log == Head(logs)
             res == IF prog = "swapui" THEN price_from_swap(v, log.args)
                                       ELSE spot_price_from_swap(v, log.args)
         IN  (IF log.ok /\ res.some
                THEN <<ExecTrade(v, res.sz, res.px, log.tx)>> ELSE <<>>)
               \o Accepted(v, Tail(logs))

\* C21: between two entries of a batch, the entries not yet worked on are
\* the rest of the batch as the source returned it, and the trades among the
\* entries already worked on are the newest entries of the venue's window
\* and of the trade log, in the order the source returned them (as far as
\* the capacities go).
C21_BatchOrderKept ==
    (Supervised /\ pc = "iter") =>
        LET n    == Len(polled) - Len(batch)
            acc  == Accepted(venue, SubSeq(polled, 1, n))
            pxsz == [i \in 1..Len(acc) |-> [px |-> acc[i].price, sz |-> acc[i].eth_size]]
        IN  /\ n >= 0
            /\ batch = SubSeq(polled, n + 1, Len(polled))
            /\ IsSuffix(Deque_maxlen(pxsz, VWAP_WINDOW), Trades(venue))
            /\ prog = "swapui" => IsSuffix(Deque_maxlen(acc, MaxExecs), recent_execs)

\* A V2 batch of the swaps a then b has been worked through by the Engine:
\* the window and the trade log hold a's trade before b's.
C21_TwoTradesInOrder ==
    /\ prog = "swapui" /\ pc = "iter" /\ venue = "V2" /\ batch = <<>>
    /\ Len(polled) = 2 /\ polled[1].tx = "a" /\ polled[2].tx = "b"
    /\ v2_trades = <<[px |-> Num(2000, 1), sz |-> Num(1, 1)],
                     [px |-> Num(1800, 1), sz |-> Num(2, 1)]>>
    /\ Len(recent_execs) = 2 /\ recent_execs[1].tx = "a" /\ recent_execs[2].tx = "b"

\* A window entry is a trade: a positive weight and a positive, finite price.
IsTrade(e) ==
    /\ e.sz.k = "num" /\ e.sz.n > 0 /\ e.sz.d > 0
    /\ e.px.k = "num" /\ e.px.n > 0 /\ e.px.d > 0

\* C22: every entry of a VWAP window has a strictly positive weight and a
\* strictly positive, finite price, and the VWAP of a window is None exactly
\* when the window is empty.
C22_WindowHoldsTradesOnly ==
    Supervised =>
        \A v \in Venues :
            /\ \A i \in 1..Len(Trades(v)) : IsTrade(Trades(v)[i])
            /\ (vwap(Trades(v)) = None) <=> (Trades(v) = <<>>)

\* A V2 batch held a log with USDT out but no ETH in and then an ETH -> USDT
\* swap: only the swap is in the window, and the VWAP is its price.
C22_ZeroInputFiltered ==
    /\ prog = "spotprice" /\ pc = "iter" /\ venue = "V2" /\ batch = <<>>
    /\ Len(polled) = 2 /\ polled[1].tx = "j" /\ polled[2].tx = "a"
    /\ v2_trades = <<[px |-> Num(2000, 1), sz |-> Num(1, 1)]>>
    /\ vwap(v2_trades) = Num(2000, 1)
    /\ vwap(v3_trades) = None

\* C23: v2spot and v3spot are both unset, with no series row yet, or both
\* are the spots of the newest series row: the three are written in one
\* atomic step of a refresh.
C23_SpotsAndRowOfOneRefresh ==
    prog = "swapui" =>
        IF series = <<>>
        THEN v2spot = None /\ v3spot = None
        ELSE v2spot = Last(series).v2s /\ v3spot = Last(series).v3s

\* C24: outside the reconnect handler the connection and both venue filters
\* belong together: a rebuild replaces all of them or none, so both filters
\* were made on the connection currently held.
C24_RebuildAllOrNothing ==
    (prog \in {"swapui", "price"} /\ pc \notin HandlerPcs) =>
        /\ v2_filter.conn = w3
        /\ v3_filter.conn = w3

====
